---- MODULE Spec2Model ----
(***************************************************************************)
(* Model of the BadmintonAI analysis pipeline: the Streamlit turn handler  *)
(* (main.py), the orchestrator process_user_query (logic/analysis_flow.py) *)
(* and its stages check_clarification, enhance_prompt, generate_code,      *)
(* execute_and_fix, check_logic_and_fix and generate_insights.             *)
(*                                                                         *)
(* One turn is a sequential run of the stages; pc is the position of the   *)
(* handler.  The reasoning service and the generated programs are the      *)
(* environment: every response and every program behaviour is chosen       *)
(* nondeterministically from small sets.                                   *)
(***************************************************************************)
EXTENDS Integers, Sequences, FiniteSets, TLC

\* ------------------------------------------------------------------------
\* Bounds of the model
\* ------------------------------------------------------------------------
\* number of turns (chat inputs) explored
MaxTurns == 2
\* number of completed exchanges in the Session when generate_code runs
MaxExchanges == 5
\* number of words of a question given to enhance_prompt
MaxQuestionLen == 2

\* ------------------------------------------------------------------------
\* Values
\* ------------------------------------------------------------------------
None == "None"

\* the dataset content as loaded from disk, and the content after a
\* generated program has written to its dataset binding
LoadedDf == "loaded"
DirtyDf == "dirty"

\* identity of the dataset object main.py holds in `df`
CanonId == 0

\* tokens a question is made of; SUP is the marker "補充說明:"
SUP == "SUP"
\* what the user types: a question, or while the session awaits a
\* clarification an option number or a free answer
Questions == { <<"q">> }
Answers == { <<"1">>, <<"a">> }

\* generated programs.  EmptyCode is the empty string, which
\* ai_correction[start:end].strip() yields for an unterminated fence.
EmptyCode == ""
Programs == {"pA", "pX", "pY"}

\* behaviour of a generated program when exec() runs it
Raises(p) == p \in {"pX", "pY"}
ErrorOf(p) == IF p = "pX" THEN "errX" ELSE "errY"
MutatesDf(p) == p \in {"pA", "pX"}
Stdout(p) ==
    IF p = "pA" THEN "outA" ELSE IF p = "pX" THEN "outX"
    ELSE IF p = "pC" THEN "outC" ELSE ""
NumFigs(p) == IF p \in {"pA", "pX", "pC"} THEN 1 ELSE 0

\* names a program binds in its namespace (besides the injected ones)
UserBindings(p, figs) ==
    IF p = "pA" THEN [n \in {"result", "tbl", "fig"} |->
                        IF n = "result" THEN [t |-> "int", v |-> 7]
                        ELSE IF n = "tbl" THEN [t |-> "frame", v |-> 0]
                        ELSE [t |-> "fig", v |-> figs[1]]]
    ELSE IF p = "pX" THEN [n \in {"tmp"} |-> [t |-> "int", v |-> 1]]
    ELSE IF p = "pC" THEN [n \in {"Counter", "total"} |->
                             IF n = "Counter" THEN [t |-> "class", v |-> 0]
                             ELSE [t |-> "int", v |-> 8]]
    ELSE [n \in {} |-> [t |-> "int", v |-> 0]]

\* a program that runs cleanly and starts with
\* "from collections import Counter": its namespace holds a class that has
\* a __len__ attribute
ClassImportingProgram == "pC"

\* ------------------------------------------------------------------------
\* Responses of the reasoning service
\* ------------------------------------------------------------------------
CallFailed == [kind |-> "raise", err |-> "errAPI"]

\* text with a closed ```python fence around a program, text with an
\* opening fence only, and text without a fence
CodeResponses ==
    {[kind |-> "fenced", code |-> p, pass |-> FALSE] : p \in Programs}
    \cup {[kind |-> "unclosed", code |-> EmptyCode, pass |-> FALSE],
          [kind |-> "plain", code |-> None, pass |-> FALSE]}

HasPythonFence(resp) == resp.kind \in {"fenced", "unclosed"}

\* ai_response[start:end].strip() with start after the opening fence and
\* end = rfind("```"): the program between the fences, or the empty string
\* when the only fence is the opening one (end < start)
ExtractPython(resp) ==
    IF resp.kind = "fenced" THEN resp.code ELSE EmptyCode

\* the judgment call of the Clarification Gate answers with text that
\* either contains CLEAR or carries (possibly fenced) structured data
GateBodies == {"payload", "payload_noq", "noneed", "nondict", "invalid"}
GateFences == {"none", "json", "json_unclosed", "plain"}
GateResponses ==
    {[kind |-> "text", clear |-> TRUE, fence |-> "none", body |-> "invalid"]}
    \cup {[kind |-> "text", clear |-> FALSE, fence |-> f, body |-> b] :
            f \in GateFences, b \in GateBodies}

ThePayload == [need_clarification |-> TRUE, question |-> "Q",
               options |-> <<"optA", "optB">>]
NoPayload == [need_clarification |-> FALSE, question |-> None,
              options |-> <<>>]
PayloadNoQuestion == [need_clarification |-> TRUE, question |-> None,
                      options |-> <<"optA", "optB">>]

\* json.loads(json_str) after the fence stripping of check_clarification:
\* "decode_error" is json.JSONDecodeError, "not_dict" a value without .get.
\* With an opening ```json fence only, find("```", start) is -1 and the
\* slice [start:-1] drops the last character of the structured data.
GateJson(resp) ==
    IF resp.fence = "json_unclosed" THEN "decode_error"
    ELSE IF resp.body = "invalid" THEN "decode_error"
    ELSE IF resp.body = "nondict" THEN "not_dict"
    ELSE resp.body

\* ------------------------------------------------------------------------
\* State
\* ------------------------------------------------------------------------
VARIABLES
    \* st.session_state
    messages, awaiting_clarification, clarification_data, original_prompt,
    \* objects outside the handler: dataset objects and pyplot's registry
    dfHeap, fignums,
    \* position and locals of the running turn
    pc, turn, prompt, enable_clarification, use_history, enhanced_prompt,
    code_to_execute, conversation, retry_count, success, last_error,
    exec_globals, execution_output, summary_info, final_figs, new_code,
    \* observation of the running turn (not program state)
    calls, execs, attempts, warnings, firstResult, entryMessages,
    \* the response text check_clarification is parsing (its local)
    clarification_content,
    \* one application of enhance_prompt: question, response and result
    enh,
    \* the response to the last repair request, while execute_and_fix is
    \* in its loop (its local)
    ai_correction,
    \* the audit response check_logic_and_fix has received in this turn
    reflection_content

sessVars == <<messages, awaiting_clarification, clarification_data,
              original_prompt>>
envVars == <<dfHeap, fignums>>
inputVars == <<turn, prompt, enable_clarification, use_history,
               enhanced_prompt>>
s3Vars == <<code_to_execute, conversation, retry_count, success, last_error,
            exec_globals, execution_output>>
s4Vars == <<summary_info, final_figs, new_code>>
obsVars == <<calls, execs, attempts, warnings, firstResult, entryMessages>>
auxVars == <<clarification_content, enh, ai_correction,
             reflection_content>>
vars == <<sessVars, envVars, pc, inputVars, s3Vars, s4Vars, obsVars, auxVars>>

NoCalls == [gate |-> 0, enhance |-> 0, gen |-> 0, repair |-> 0,
            audit |-> 0, insight |-> 0]
NoExecs == [s3 |-> 0, s4 |-> 0]
EmptyGlobals == [n \in {} |-> [t |-> "int", v |-> 0]]

\* no response is being parsed
NoResponse == [kind |-> "none", clear |-> FALSE, fence |-> "none",
               body |-> "invalid"]

\* no repair response is held
NoCorrection == [kind |-> "none", code |-> None, pass |-> FALSE]

\* no audit response has been received
NoReflection == [kind |-> "none", code |-> None, pass |-> FALSE]

\* enhance_prompt is not being applied
NoEnhance == [phase |-> "off"]

NoResult == [code |-> None, out |-> "", summary |-> EmptyGlobals,
             figs |-> <<>>]

\* main.py: the session keys are created empty on the first run
InitHandler ==
    /\ messages = <<>>
    /\ awaiting_clarification = FALSE
    /\ clarification_data = NoPayload
    /\ original_prompt = <<>>
    /\ dfHeap = (CanonId :> LoadedDf)
    /\ fignums = <<>>
    /\ pc = "idle"
    /\ turn = 0
    /\ prompt = <<>>
    /\ enable_clarification = FALSE
    /\ use_history = FALSE
    /\ enhanced_prompt = <<>>
    /\ code_to_execute = None
    /\ conversation = <<>>
    /\ retry_count = 0
    /\ success = FALSE
    /\ last_error = None
    /\ exec_globals = EmptyGlobals
    /\ execution_output = ""
    /\ summary_info = EmptyGlobals
    /\ final_figs = <<>>
    /\ new_code = None
    /\ calls = NoCalls
    /\ execs = NoExecs
    /\ attempts = <<>>
    /\ warnings = 0
    /\ firstResult = NoResult
    /\ entryMessages = <<>>
    /\ clarification_content = NoResponse
    /\ ai_correction = NoCorrection
    /\ reflection_content = NoReflection

Init ==
    /\ InitHandler
    /\ enh = NoEnhance

\* ------------------------------------------------------------------------
\* Helpers
\* ------------------------------------------------------------------------
Contains(seq, tok) == \E i \in 1..Len(seq) : seq[i] = tok

\* a Session message.  A dict without the key "tracked" reads as tracked
\* (m.get("tracked", True)); a dict without figures has figures = <<>>.
Msg(role, content, figures, tracked, enhanced) ==
    [role |-> role, content |-> content, figures |-> figures,
     tracked |-> tracked, enhanced |-> enhanced]

\* the except branch of process_user_query: the error text becomes an
\* assistant message and the handler returns
FailureNotice(err) == Msg("assistant", <<err>>, <<>>, TRUE, <<>>)

\* f"```python\n{code}\n```"
CodeBlock(code) == <<"FENCE_PY", code, "FENCE">>

\* ------------------------------------------------------------------------
\* main.py: one chat input
\* ------------------------------------------------------------------------
\* variant: the option after the numbered one is taken
ResolveAnswerNextOption(input, data) ==
    IF input[1] = "1" /\ data.need_clarification /\ Len(data.options) >= 2
    THEN <<data.options[2]>>
    ELSE input

\* the answer typed while awaiting: a digit selects the option of that
\* number when the payload has one
ResolveAnswer(input, data) ==
    IF input[1] = "1" /\ data.need_clarification /\ Len(data.options) >= 1
    THEN <<data.options[1]>>
    ELSE input

\* variant: the stored payload outlives the flag
ClearedPayloadKept(data) == data

\* st.session_state.clarification_data = None
ClearedPayload(data) == NoPayload

ResetTurnLocals ==
    /\ enhanced_prompt' = <<>>
    /\ code_to_execute' = None
    /\ conversation' = <<>>
    /\ retry_count' = 0
    /\ success' = FALSE
    /\ last_error' = None
    /\ exec_globals' = EmptyGlobals
    /\ execution_output' = ""
    /\ summary_info' = EmptyGlobals
    /\ final_figs' = <<>>
    /\ new_code' = None
    /\ calls' = NoCalls
    /\ execs' = NoExecs
    /\ attempts' = <<>>
    /\ warnings' = 0
    /\ firstResult' = NoResult

\* the script run triggered by st.chat_input: the dataset is loaded, the
\* user message is stored and process_user_query is entered
Submit ==
    /\ pc = "idle"
    /\ turn < MaxTurns
    /\ \E input \in (IF awaiting_clarification THEN Answers ELSE Questions),
          enable \in BOOLEAN, hist \in BOOLEAN :
        /\ enable_clarification' = enable
        /\ use_history' = hist
        /\ IF awaiting_clarification
           THEN /\ prompt' = original_prompt \o <<SUP>>
                             \o ResolveAnswer(input, clarification_data)
                /\ messages' = Append(messages,
                                      Msg("user", input, <<>>, TRUE, <<>>))
                /\ awaiting_clarification' = FALSE
                /\ clarification_data' = ClearedPayload(clarification_data)
           ELSE /\ prompt' = input
                /\ messages' = Append(messages,
                                      Msg("user", input, <<>>, hist, <<>>))
                /\ UNCHANGED <<awaiting_clarification, clarification_data>>
    /\ UNCHANGED original_prompt
    /\ dfHeap' = (CanonId :> LoadedDf)
    /\ UNCHANGED fignums
    /\ turn' = turn + 1
    /\ pc' = "step0"
    /\ ResetTurnLocals
    /\ entryMessages' = messages'
    /\ clarification_content' = NoResponse
    /\ UNCHANGED <<enh, ai_correction, reflection_content>>

\* ------------------------------------------------------------------------
\* process_user_query: leaving the turn
\* ------------------------------------------------------------------------
\* variant: the handler returns without storing the error text
AbortSilent(err) ==
    /\ messages' = messages
    /\ pc' = "idle"

\* except Exception as e: append str(e) as an assistant message
Abort(err) ==
    /\ messages' = Append(messages, FailureNotice(err))
    /\ pc' = "idle"

\* ------------------------------------------------------------------------
\* Step 0: check_clarification and the orchestrator's handling of a payload
\* ------------------------------------------------------------------------
\* variant: only the enable flag is looked at
GateSkipsDisabledOnly(enable, p) == ~enable

\* the two early returns of check_clarification
GateSkips(enable, p) == (~enable) \/ Contains(p, SUP)

\* "### 🤔 {question}" followed by the numbered options
ClarificationMsg(data) ==
    Msg("assistant", <<"THINK", data.question>> \o data.options, <<>>,
        TRUE, <<>>)

Step0 ==
    /\ pc = "step0"
    /\ IF GateSkips(enable_clarification, prompt)
       THEN /\ pc' = "step1"
            /\ UNCHANGED <<sessVars, calls, clarification_content>>
       ELSE /\ calls' = [calls EXCEPT !.gate = @ + 1]
            /\ \E resp \in GateResponses \cup {CallFailed} :
                 /\ clarification_content' =
                        IF resp.kind = "raise" THEN NoResponse ELSE resp
                 /\ IF resp.kind = "raise"
                    THEN Abort(resp.err)
                         /\ UNCHANGED <<awaiting_clarification,
                                        clarification_data, original_prompt>>
                    ELSE IF resp.clear \/ GateJson(resp) \in {"decode_error", "noneed"}
                    THEN /\ pc' = "step1"
                         /\ UNCHANGED sessVars
                    ELSE IF GateJson(resp) = "not_dict"
                    THEN \* clarification_data.get raises AttributeError
                         Abort("errAttribute")
                         /\ UNCHANGED <<awaiting_clarification,
                                        clarification_data, original_prompt>>
                    ELSE IF GateJson(resp) = "payload"
                    THEN /\ awaiting_clarification' = TRUE
                         /\ clarification_data' = ThePayload
                         /\ original_prompt' = prompt
                         /\ messages' = Append(messages,
                                               ClarificationMsg(ThePayload))
                         /\ pc' = "idle"
                    ELSE \* payload without "question": KeyError after the
                         \* session fields were written
                         /\ awaiting_clarification' = TRUE
                         /\ clarification_data' = PayloadNoQuestion
                         /\ original_prompt' = prompt
                         /\ Abort("errKey")
    /\ UNCHANGED <<envVars, inputVars, s3Vars, s4Vars>>
    /\ UNCHANGED <<execs, attempts, warnings, firstResult, entryMessages>>
    /\ UNCHANGED <<enh, ai_correction, reflection_content>>

\* ------------------------------------------------------------------------
\* Step 1: enhance_prompt
\* ------------------------------------------------------------------------
\* the enhanced question: the parsed field, or the raw response text
EnhancedTexts == { <<"enh">> }

Step1 ==
    /\ pc = "step1"
    /\ calls' = [calls EXCEPT !.enhance = @ + 1]
    /\ \/ /\ Abort(CallFailed.err)
          /\ UNCHANGED enhanced_prompt
       \/ /\ \E e \in EnhancedTexts : enhanced_prompt' = e
          /\ pc' = "step2"
          /\ UNCHANGED messages
    /\ UNCHANGED <<awaiting_clarification, clarification_data,
                   original_prompt>>
    /\ UNCHANGED <<envVars, turn, prompt, enable_clarification, use_history>>
    /\ UNCHANGED <<s3Vars, s4Vars, execs, attempts, warnings, firstResult,
                   entryMessages>>
    /\ clarification_content' = NoResponse
    /\ UNCHANGED <<enh, ai_correction, reflection_content>>

\* ------------------------------------------------------------------------
\* enhance_prompt as a function of the question and the service's outcome
\* ------------------------------------------------------------------------
\* words of a question: one of the spatial keywords (落點, 位置, ...,
\* distance), one of the score keywords (得分, 失分, ..., score), or a word
\* that is neither
QuestionWords == {"kwSpatial", "kwScore", "w"}
EnhanceQuestions ==
    UNION {[1..n -> QuestionWords] : n \in 1..MaxQuestionLen}

\* the enhancement call fails, answers without content, or answers with
\* text: structured data with all three fields ("full"), without the tag
\* field, without the enhanced question, with a tag outside the prompt's
\* two, with an empty tag list, structured data that is not an object,
\* prose, or prose that repeats the question word for word
EnhanceBodies == {"full", "no_topics", "no_enh", "topics_other",
                  "topics_empty", "nondict", "invalid", "echo"}
EnhanceFences == {"none", "json", "plain", "json_unclosed"}
NullContent == [kind |-> "null"]
EnhanceResponses ==
    {CallFailed, NullContent}
    \cup {[kind |-> "text", fence |-> f, body |-> b] :
            f \in EnhanceFences, b \in EnhanceBodies}

\* raw_content: the text of the response
RawContent(q, resp) ==
    LET body == IF resp.body = "echo" THEN q ELSE <<resp.body>>
    IN IF resp.fence = "none" THEN body
       ELSE IF resp.fence = "json"
            THEN <<"FENCE_JSON">> \o body \o <<"FENCE">>
       ELSE IF resp.fence = "plain"
            THEN <<"FENCE">> \o body \o <<"FENCE">>
       ELSE <<"FENCE_JSON">> \o body

\* json.loads(json_str) after the fence stripping of enhance_prompt.  The
\* closing fence is looked up with rfind: when the opening fence is the
\* only one, end < start and json_str is the empty string.
EnhanceJson(resp) ==
    IF resp.fence = "json_unclosed" THEN "decode_error"
    ELSE IF resp.body \in {"invalid", "echo"} THEN "decode_error"
    ELSE IF resp.body = "nondict" THEN "not_dict"
    ELSE "dict"

\* the fields of the parsed object
HasEnhancedField(body) ==
    body \in {"full", "no_topics", "topics_other", "topics_empty"}
HasTopicsField(body) ==
    body \in {"full", "no_enh", "topics_other", "topics_empty"}
TopicsField(body) ==
    IF body = "full" THEN <<"spatial">>
    ELSE IF body = "no_enh" THEN <<"score">>
    ELSE IF body = "topics_other" THEN <<"tempo">>
    ELSE <<>>
NeedsField(body) == body = "full"

\* variant: nothing is selected when the tags are unknown
DefaultTopicsNone == <<>>

\* ["spatial", "score"]: the default of parsed.get and the safe fallback
DefaultTopics == <<"spatial", "score">>

\* the keyword detection over the question
KeywordTopics(q) ==
    (IF Contains(q, "kwSpatial") THEN <<"spatial">> ELSE <<>>)
    \o (IF Contains(q, "kwScore") THEN <<"score">> ELSE <<>>)

FallbackTopics(q) ==
    IF KeywordTopics(q) = <<>> THEN DefaultTopics ELSE KeywordTopics(q)

\* variant: the question is echoed
FallbackEnhancedQuestion(q, raw) == q

\* except: enhanced_prompt = raw_content
FallbackEnhanced(q, raw) == raw

NoEnhResult == [raised |-> FALSE, err |-> None, enhanced |-> <<>>,
                topics |-> <<>>, needs |-> FALSE, raw |-> <<>>]

\* the call and .content.strip() are outside the try; everything raised
\* while parsing is caught by the bare except
enhance_prompt(q, resp) ==
    IF resp.kind = "raise"
    THEN [NoEnhResult EXCEPT !.raised = TRUE, !.err = resp.err]
    ELSE IF resp.kind = "null"
    THEN [NoEnhResult EXCEPT !.raised = TRUE, !.err = "errAttribute"]
    ELSE LET raw == RawContent(q, resp)
         IN IF EnhanceJson(resp) = "dict"
            THEN [raised |-> FALSE, err |-> None,
                  enhanced |-> IF HasEnhancedField(resp.body)
                               THEN <<"E">> ELSE raw,
                  topics |-> IF HasTopicsField(resp.body)
                             THEN TopicsField(resp.body) ELSE DefaultTopics,
                  needs |-> NeedsField(resp.body),
                  raw |-> raw]
            ELSE [raised |-> FALSE, err |-> None,
                  enhanced |-> FallbackEnhanced(q, raw),
                  topics |-> FallbackTopics(q),
                  needs |-> Contains(q, "kwSpatial"),
                  raw |-> raw]

\* one application of enhance_prompt
EnhanceCall ==
    /\ enh.phase = "input"
    /\ enh' = [enh EXCEPT !.phase = "done",
                          !.result = enhance_prompt(enh.question,
                                                    enh.response)]
    /\ UNCHANGED <<sessVars, envVars, pc, inputVars, s3Vars, s4Vars,
                   obsVars, clarification_content, ai_correction,
                   reflection_content>>

\* ------------------------------------------------------------------------
\* Step 2: the system prompt of generate_code
\* ------------------------------------------------------------------------
MaxTopics == 3

\* the tags a topic list can hold: the two of the vocabulary and one that
\* is not in it (the list of the enhancer is passed on as received)
TopicTags == {"spatial", "score", "tempo"}
RECURSIVE TopicLists(_)
TopicLists(n) ==
    IF n = 0 THEN {<<>>}
    ELSE TopicLists(n - 1)
         \cup {Append(l, t) : l \in {x \in TopicLists(n - 1) : Len(x) = n - 1},
                               t \in TopicTags}

\* the column descriptors of the Schema Corpus, by name
SchemaCorpus ==
    <<[name |-> <<"player">>], [name |-> <<"landing", "x">>],
      [name |-> <<"score", "diff">>], [name |-> <<"type">>],
      [name |-> <<"hit", "area">>], [name |-> <<"roundscore">>]>>

\* classification of a descriptor by keywords of its name
DescriptorClass(d) ==
    IF Contains(d.name, "x") \/ Contains(d.name, "area") THEN "spatial"
    ELSE IF Contains(d.name, "score") \/ Contains(d.name, "roundscore")
    THEN "score"
    ELSE "core"

HasTag(topics, tag) == \E i \in 1..Len(topics) : topics[i] = tag

\* get_filtered_schema_string: the core descriptors, the spatial ones with
\* the spatial tag, the score ones with the score tag, in corpus order
get_filtered_schema_string(topics) ==
    SelectSeq(SchemaCorpus,
              LAMBDA d : \/ DescriptorClass(d) = "core"
                         \/ DescriptorClass(d) = "spatial"
                            /\ HasTag(topics, "spatial")
                         \/ DescriptorClass(d) = "score"
                            /\ HasTag(topics, "score"))

\* variant: the selector is always given the full tag set
SchemaTopicsFull(relevant_topics) == <<"spatial", "score">>

\* the argument of get_filtered_schema_string(relevant_topics)
SchemaTopics(relevant_topics) == relevant_topics

\* load_court_info: the text of court_place.txt, "" when it cannot be read
CourtInfos == {"", "court_grid"}

\* create_system_prompt(data_schema_info, dynamic_col_defs), the court
\* text appended if needs_court_info and court_place_info, then the
\* charting guidance
SystemPrompt(relevant_topics, needs_court_info, court_place_info) ==
    [schema |-> "data_schema_info",
     columns |-> get_filtered_schema_string(SchemaTopics(relevant_topics)),
     court |-> IF needs_court_info /\ court_place_info # ""
               THEN court_place_info ELSE "",
     guidance |-> TRUE]

NoSystemPrompt ==
    [schema |-> "", columns |-> <<>>, court |-> "", guidance |-> FALSE]

\* generate_code up to the point where the system prompt is complete
BuildSystemPrompt ==
    /\ enh.phase = "topics"
    /\ enh' = [enh EXCEPT !.phase = "built",
                          !.system_prompt =
                              SystemPrompt(enh.relevant_topics,
                                           enh.needs_court_info,
                                           enh.court_place_info)]
    /\ UNCHANGED <<sessVars, envVars, pc, inputVars, s3Vars, s4Vars,
                   obsVars, clarification_content, ai_correction,
                   reflection_content>>

\* ------------------------------------------------------------------------
\* Step 2: generate_code
\* ------------------------------------------------------------------------
Turn(role, content) == [role |-> role, content |-> content]

\* the backward scan over st.session_state.messages[:-1]: stop at the first
\* untracked message, keep messages with content and without the 🤔 sign
\* variant: the scan passes over an untracked message and goes on
AtTrackingBoundaryNever(m) == FALSE

\* if not m.get("tracked", True): break
AtTrackingBoundary(m) == ~m.tracked

\* variant: every message with content is taken
InHistoryAnyContent(m) == m.content # <<>>

\* if m.get("content") and "🤔" not in m.get("content", "")
InHistory(m) == m.content # <<>> /\ ~Contains(m.content, "THINK")

RECURSIVE HistoryScan(_, _)
HistoryScan(msgs, i) ==
    IF i < 1 THEN <<>>
    ELSE IF AtTrackingBoundary(msgs[i]) THEN <<>>
    ELSE IF InHistory(msgs[i])
         THEN Append(HistoryScan(msgs, i - 1),
                     Turn(msgs[i].role, msgs[i].content))
         ELSE HistoryScan(msgs, i - 1)

\* variant: the oldest n are kept
LastNFromFront(seq, n) ==
    IF Len(seq) <= n THEN seq ELSE SubSeq(seq, 1, n)

\* valid_history[-8:]
LastN(seq, n) ==
    IF Len(seq) <= n THEN seq ELSE SubSeq(seq, Len(seq) - n + 1, Len(seq))

HistoryWindow(msgs, hist) ==
    IF hist /\ Len(msgs) > 1
    THEN LastN(HistoryScan(msgs, Len(msgs) - 1), 8)
    ELSE <<>>

\* Sessions generate_code can meet: every turn so far stored the user's
\* message (marked untracked when history was off) and then one assistant
\* message: an answer or failure notice, a failure notice with an empty
\* text, or the clarification message, after which the next user message
\* is a follow-up and carries no tracking mark
UserKinds == {"tracked", "untracked"}
ReplyKinds == {"answer", "clar", "blank"}
SessionShapes(n) ==
    {ex \in [1..n -> UserKinds \X ReplyKinds] :
        \A k \in 2..n : ex[k - 1][2] = "clar" => ex[k][1] = "tracked"}

\* the text of the i-th message of a Session: i words
Words(i) == [j \in 1..i |-> "w"]

SessionOf(ex, hist) ==
    [i \in 1..(2 * Len(ex) + 1) |->
        IF i = 2 * Len(ex) + 1
        THEN Msg("user", Words(i), <<>>, hist, <<>>)
        ELSE IF i % 2 = 1
        THEN Msg("user", Words(i), <<>>,
                 ex[(i + 1) \div 2][1] = "tracked", <<>>)
        ELSE Msg("assistant",
                 IF ex[i \div 2][2] = "answer" THEN Words(i)
                 ELSE IF ex[i \div 2][2] = "clar"
                      THEN <<"THINK">> \o Words(i)
                 ELSE <<>>,
                 <<>>, TRUE, <<>>)]

\* if code_to_execute: a missing program and the empty program are falsy
Truthy(code) == code # None /\ code # EmptyCode

Step2 ==
    /\ pc = "step2"
    /\ UNCHANGED auxVars
    /\ calls' = [calls EXCEPT !.gen = @ + 1]
    /\ conversation' = <<Turn("system", <<"sys">>)>>
                       \o HistoryWindow(messages, use_history)
                       \o <<Turn("user", enhanced_prompt)>>
    /\ \E resp \in CodeResponses \cup {CallFailed} :
         IF resp.kind = "raise"
         THEN Abort(resp.err) /\ UNCHANGED code_to_execute
         ELSE /\ code_to_execute' = IF HasPythonFence(resp)
                                    THEN ExtractPython(resp) ELSE None
              /\ pc' = IF Truthy(code_to_execute') THEN "s3_loop" ELSE "step5"
              /\ UNCHANGED messages
    /\ UNCHANGED <<awaiting_clarification, clarification_data,
                   original_prompt>>
    /\ UNCHANGED <<envVars, inputVars, s4Vars>>
    /\ UNCHANGED <<retry_count, success, last_error, exec_globals,
                   execution_output>>
    /\ UNCHANGED <<execs, attempts, warnings, firstResult, entryMessages>>

\* ------------------------------------------------------------------------
\* The sandbox: exec(code, exec_globals)
\* ------------------------------------------------------------------------
InjectedNames == {"pd", "df", "st", "platform", "io", "plt", "sns", "lib"}

NewDfId(heap) == Cardinality(DOMAIN heap)

\* variant: the context is given the dataset object itself
CopyDfAlias(heap, src) == [id |-> src, heap |-> heap]

\* df.copy(): a new dataset object holding the content of the source
CopyDf(heap, src) == [id |-> NewDfId(heap),
                      heap |-> heap @@ (NewDfId(heap) :> heap[src])]

\* variant: the context is built once and kept across attempts
FreshGlobalsReused(dfId) ==
    IF exec_globals = EmptyGlobals
    THEN [n \in InjectedNames |->
            IF n = "df" THEN [t |-> "dfref", v |-> dfId]
            ELSE [t |-> "module", v |-> 0]]
    ELSE exec_globals

\* the dict literal assigned to exec_globals before each exec
FreshGlobals(dfId) ==
    [n \in InjectedNames |->
        IF n = "df" THEN [t |-> "dfref", v |-> dfId]
        ELSE [t |-> "module", v |-> 0]]

\* variant: the figures of the registry stay open
CloseAllKept(reg) == reg

\* plt.close('all'): the registry is emptied
CloseAll(reg) == <<>>

\* the figures an execution creates.  A figure is named by the turn, the
\* stage and the program that drew it.
NewFigs(p, t, stage) ==
    IF NumFigs(p) = 0 THEN <<>>
    ELSE <<[turn |-> t, stage |-> stage, by |-> p]>>

\* the effect of exec(p, g) on the namespace, the dataset objects and the
\* pyplot registry; a raising program leaves its partial effects behind
ExecGlobals(p, g, figs) == UserBindings(p, figs) @@ g
ExecHeap(p, g, heap) ==
    IF MutatesDf(p) THEN [heap EXCEPT ![g["df"].v] = DirtyDf] ELSE heap

\* what an execution attempt saw when it started
Observed(stage, p, g, heap) ==
    [stage |-> stage, code |-> p, dfId |-> g["df"].v,
     dfSeen |-> heap[g["df"].v], names |-> DOMAIN g, ok |-> ~Raises(p)]

\* ------------------------------------------------------------------------
\* Step 3: execute_and_fix
\* ------------------------------------------------------------------------
max_retries == 3

\* variant: the loop condition never turns false
LoopGuardAlways(rc) == TRUE

\* variant: the loop admits one attempt more
LoopGuardOneMore(rc) == rc <= max_retries + 1

\* while retry_count <= max_retries
LoopGuard(rc) == rc <= max_retries

\* variant: one buffer for all attempts, read after every attempt
CapturedOutputShared(prev, p) == prev \o Stdout(p)

\* f = io.StringIO() per attempt; execution_output = f.getvalue() is
\* reached only when exec returned
CapturedOutput(prev, p) == IF Raises(p) THEN prev ELSE Stdout(p)

\* variant: the error description precedes the program
ErrorExchangeErrorFirst(code, err) ==
    <<Turn("user", <<"error", err>>), Turn("assistant", CodeBlock(code))>>

\* the feedback appended after a failed attempt: the failing program as an
\* assistant message, then the error description as a user message
ErrorExchange(code, err) ==
    <<Turn("assistant", CodeBlock(code)), Turn("user", <<"error", err>>)>>

\* one pass through the try block: reset pyplot, build the context with a
\* copy of the dataset, run the candidate
S3Exec ==
    /\ pc = "s3_loop"
    /\ UNCHANGED <<clarification_content, enh, reflection_content>>
    /\ LET cp == CopyDf(dfHeap, CanonId)
           g == FreshGlobals(cp.id)
           p == code_to_execute
           figs == NewFigs(p, turn, "s3")
       IN /\ attempts' = Append(attempts, Observed("s3", p, g, cp.heap))
          /\ execs' = [execs EXCEPT !.s3 = @ + 1]
          /\ dfHeap' = ExecHeap(p, g, cp.heap)
          /\ fignums' = CloseAll(fignums) \o figs
          /\ exec_globals' = ExecGlobals(p, g, figs)
          /\ execution_output' = CapturedOutput(execution_output, p)
          /\ IF Raises(p)
             THEN /\ retry_count' = retry_count + 1
                  /\ last_error' = ErrorOf(p)
                  /\ conversation' = conversation
                                     \o ErrorExchange(p, ErrorOf(p))
                  /\ pc' = "s3_fix"
                  /\ UNCHANGED <<success, ai_correction>>
             ELSE /\ success' = TRUE
                  /\ pc' = "s3_ret"
                  /\ ai_correction' = NoCorrection
                  /\ UNCHANGED <<retry_count, last_error, conversation>>
    /\ UNCHANGED <<sessVars, inputVars, code_to_execute, s4Vars>>
    /\ UNCHANGED <<calls, warnings, firstResult, entryMessages>>

\* variant: a response without a fenced program is taken as the program
RepairedCandidateTakesText(code, resp) ==
    IF HasPythonFence(resp) THEN ExtractPython(resp) ELSE EmptyCode

\* if "```python" in ai_correction: code_to_execute = ai_correction[...]
\* and no else branch
RepairedCandidate(code, resp) ==
    IF HasPythonFence(resp) THEN ExtractPython(resp) ELSE code

\* the except block after the feedback was appended: ask the generator for
\* a corrected program, keep the candidate when the answer has no fence
S3Fix ==
    /\ pc = "s3_fix"
    /\ UNCHANGED <<clarification_content, enh, reflection_content>>
    /\ calls' = [calls EXCEPT !.repair = @ + 1]
    /\ \E resp \in CodeResponses \cup {CallFailed} :
         IF resp.kind = "raise"
         THEN /\ Abort(resp.err)
              /\ UNCHANGED code_to_execute
              /\ ai_correction' = NoCorrection
         ELSE /\ code_to_execute' = RepairedCandidate(code_to_execute, resp)
              /\ pc' = IF LoopGuard(retry_count) THEN "s3_loop" ELSE "s3_ret"
              /\ ai_correction' = IF LoopGuard(retry_count) THEN resp
                                   ELSE NoCorrection
              /\ UNCHANGED messages
    /\ UNCHANGED <<awaiting_clarification, clarification_data,
                   original_prompt>>
    /\ UNCHANGED <<envVars, inputVars, s4Vars>>
    /\ UNCHANGED <<conversation, retry_count, success, last_error,
                   exec_globals, execution_output>>
    /\ UNCHANGED <<execs, attempts, warnings, firstResult, entryMessages>>

\* variant: a successful execution goes straight to the insight stage
S3ReturnSkipsReflector ==
    /\ pc = "s3_ret"
    /\ UNCHANGED auxVars
    /\ IF success
       THEN pc' = "step5" /\ UNCHANGED messages
       ELSE Abort(last_error)
    /\ UNCHANGED <<awaiting_clarification, clarification_data,
                   original_prompt>>
    /\ UNCHANGED <<envVars, inputVars, s3Vars, s4Vars, obsVars>>

\* variant: the orchestrator does not look at success
S3ReturnUnchecked ==
    /\ pc = "s3_ret"
    /\ UNCHANGED auxVars
    /\ pc' = "s4_audit"
    /\ UNCHANGED <<sessVars, envVars, inputVars, s3Vars, s4Vars, obsVars>>

\* process_user_query after execute_and_fix returned:
\* if not success: raise last_error
S3Return ==
    /\ pc = "s3_ret"
    /\ UNCHANGED auxVars
    /\ IF success
       THEN pc' = "s4_audit" /\ UNCHANGED messages
       ELSE Abort(last_error)
    /\ UNCHANGED <<awaiting_clarification, clarification_data,
                   original_prompt>>
    /\ UNCHANGED <<envVars, inputVars, s3Vars, s4Vars, obsVars>>

\* ------------------------------------------------------------------------
\* Step 4: check_logic_and_fix
\* ------------------------------------------------------------------------
ignore_list == {"df", "pd", "st", "platform", "io", "fig", "np", "plt", "sns"}

FigCount(figs) == [t |-> "int", v |-> Len(figs)]

\* first inspection of the namespace: scalars verbatim, frames as the empty
\* marker or a row count, everything without a length dropped
Summarize(g, figs) ==
    [n \in {m \in (DOMAIN g) \ ignore_list : g[m].t \in {"int", "frame"}}
        |-> IF g[n].t = "int" THEN g[n]
            ELSE IF g[n].v = 0 THEN [t |-> "empty_marker", v |-> 0]
            ELSE [t |-> "rowcount", v |-> g[n].v]]
    @@ ("_generated_figures_count" :> FigCount(figs))

\* the inspection repeated after a successful corrective run: frames are
\* always described by their row count
Resummarize(g, figs) ==
    [n \in {m \in (DOMAIN g) \ ignore_list : g[m].t \in {"int", "frame"}}
        |-> IF g[n].t = "int" THEN g[n]
            ELSE [t |-> "rowcount", v |-> g[n].v]]
    @@ ("_generated_figures_count" :> FigCount(figs))

\* the repeated inspection has no isinstance(val, type) test and no
\* try/except of its own: hasattr(val, '__len__') holds for a class that
\* defines __len__ and len(val) then raises TypeError
ResummarizeRaises(g) ==
    \E n \in (DOMAIN g) \ ignore_list : g[n].t = "class"

\* summary_info = {} filled up to the name the inspection raised at; the
\* import is the first binding of the program, so nothing has been entered
PartialSummary(g) == EmptyGlobals

\* figures of the pyplot registry, else the binding named fig
CollectFigs(reg, g) ==
    IF reg # <<>> THEN reg
    ELSE IF "fig" \in DOMAIN g THEN <<g["fig"].v>>
    ELSE <<>>

\* answers of the audit call: PASS, a corrected program, both, neither, or
\* a message without content
AuditResponses ==
    {[kind |-> "fenced", code |-> p, pass |-> FALSE] : p \in Programs}
    \cup {[kind |-> "fenced", code |-> ClassImportingProgram,
            pass |-> FALSE],
          [kind |-> "fenced", code |-> "pA", pass |-> TRUE],
          [kind |-> "unclosed", code |-> EmptyCode, pass |-> FALSE],
          [kind |-> "plain", code |-> None, pass |-> TRUE],
          [kind |-> "plain", code |-> None, pass |-> FALSE],
          [kind |-> "null", code |-> None, pass |-> FALSE]}

\* if "PASS" not in reflection_content and "```python" in reflection_content
WantsCorrection(resp) == (~resp.pass) /\ HasPythonFence(resp)

\* variant: the corrected result is audited again
AfterCorrectiveRunReaudit(ok) == "s4_audit"

\* variant: a failed corrective run enters the repair loop
AfterCorrectiveRunRepair(ok) == IF ok THEN "step5" ELSE "s3_fix"

\* the single place the stage goes to after the corrective run
AfterCorrectiveRun(ok) == "step5"

\* inspect the namespace, send the audit request, decide on a correction
S4Audit ==
    /\ pc = "s4_audit"
    /\ UNCHANGED <<clarification_content, enh, ai_correction>>
    /\ calls' = [calls EXCEPT !.audit = @ + 1]
    /\ LET created_figs == CollectFigs(fignums, exec_globals)
           first == Summarize(exec_globals, created_figs)
       IN \E resp \in AuditResponses \cup {CallFailed} :
            IF resp.kind = "raise"
            THEN Abort(resp.err)
                 /\ UNCHANGED <<s4Vars, firstResult, reflection_content>>
            ELSE IF resp.kind = "null"
            THEN \* None.strip() raises AttributeError
                 Abort("errAttribute")
                 /\ UNCHANGED <<s4Vars, firstResult, reflection_content>>
            ELSE /\ reflection_content' = resp
                 /\ summary_info' = first
                 /\ final_figs' = created_figs
                 /\ firstResult' = [code |-> code_to_execute,
                                    out |-> execution_output,
                                    summary |-> first,
                                    figs |-> created_figs]
                 /\ IF WantsCorrection(resp)
                    THEN new_code' = ExtractPython(resp) /\ pc' = "s4_exec"
                    ELSE new_code' = None /\ pc' = "step5"
                 /\ UNCHANGED messages
    /\ UNCHANGED <<awaiting_clarification, clarification_data,
                   original_prompt>>
    /\ UNCHANGED <<envVars, inputVars, s3Vars>>
    /\ UNCHANGED <<execs, attempts, warnings, entryMessages>>

\* variant: final_code is assigned before the corrective run
CorrectiveOutcomeEager(p, after, figs, old) ==
    IF Raises(p) THEN [old EXCEPT !.code = p]
    ELSE [code |-> p, out |-> Stdout(p),
          summary |-> Resummarize(after, CollectFigs(figs, after)),
          figs |-> CollectFigs(figs, after)]

\* the values check_logic_and_fix returns after the corrective run of p:
\* those of the new run when it succeeded, else the earlier ones (old)
CorrectiveOutcome(p, after, figs, old) ==
    IF Raises(p) THEN old
    ELSE IF ResummarizeRaises(after)
    THEN \* execution_output and final_code are already assigned when the
         \* inspection raises; final_figs is still created_figs
         [code |-> p, out |-> Stdout(p),
          summary |-> PartialSummary(after),
          figs |-> old.figs]
    ELSE [code |-> p, out |-> Stdout(p),
          summary |-> Resummarize(after, CollectFigs(figs, after)),
          figs |-> CollectFigs(figs, after)]

\* the corrective run: one execution in a new context; on an exception a
\* warning is shown and the earlier values are returned
S4Exec ==
    /\ pc = "s4_exec"
    /\ UNCHANGED auxVars
    /\ LET cp == CopyDf(dfHeap, CanonId)
           g == FreshGlobals(cp.id)
           p == new_code
           figs == NewFigs(p, turn, "s4")
           after == ExecGlobals(p, g, figs)
           r == CorrectiveOutcome(p, after, figs,
                                  [code |-> code_to_execute,
                                   out |-> execution_output,
                                   summary |-> summary_info,
                                   figs |-> final_figs])
       IN /\ attempts' = Append(attempts, Observed("s4", p, g, cp.heap))
          /\ execs' = [execs EXCEPT !.s4 = @ + 1]
          /\ dfHeap' = ExecHeap(p, g, cp.heap)
          /\ fignums' = CloseAll(fignums) \o figs
          /\ code_to_execute' = r.code
          /\ execution_output' = r.out
          /\ summary_info' = r.summary
          /\ final_figs' = r.figs
          /\ warnings' = IF Raises(p) \/ ResummarizeRaises(after)
                          THEN warnings + 1 ELSE warnings
          /\ pc' = AfterCorrectiveRun(~Raises(p))
    /\ UNCHANGED <<sessVars, inputVars, new_code>>
    /\ UNCHANGED <<conversation, retry_count, success, last_error,
                   exec_globals>>
    /\ UNCHANGED <<calls, firstResult, entryMessages>>

\* ------------------------------------------------------------------------
\* Steps 5 to 7: display, generate_insights, store the answer
\* ------------------------------------------------------------------------
\* code block, separator, heading and the narrative
AnswerContent(code, text) ==
    (IF Truthy(code) THEN CodeBlock(code) ELSE <<>>)
    \o <<"---", "heading", text>>

\* {"提示": "AI 未輸出可供分析的統計變數..."}
NoOutputHint == ("hint" :> [t |-> "str", v |-> 0])

\* variant: an empty summary is passed on as it is
SummaryForInsightAsIs(summary) == summary

\* if not summary_info: the hint replaces an empty summary
SummaryForInsight(summary) ==
    IF summary = EmptyGlobals THEN NoOutputHint ELSE summary

\* outcomes of the insight call: a narrative, or a failed call
InsightResponses == {[kind |-> "text"], CallFailed}

\* variant: the exception of the call leaves generate_insights
generate_insights_uncaught(resp) ==
    IF resp.kind = "raise"
    THEN [raised |-> TRUE, err |-> resp.err, text |-> "insight_unavailable"]
    ELSE [raised |-> FALSE, err |-> None, text |-> "insight"]

\* generate_insights: the call sits in try/except, the except branch
\* returns the placeholder text
generate_insights(resp) ==
    IF resp.kind = "raise"
    THEN [raised |-> FALSE, err |-> None, text |-> "insight_unavailable"]
    ELSE [raised |-> FALSE, err |-> None, text |-> "insight"]

\* the message a turn ends with after the insight stage returned or raised
ClosingMessage(r, code, figs, enhanced) ==
    IF r.raised THEN FailureNotice(r.err)
    ELSE Msg("assistant", AnswerContent(code, r.text), figs, TRUE, enhanced)

Step6 ==
    /\ pc = "step5"
    /\ UNCHANGED <<clarification_content, enh, ai_correction>>
    /\ reflection_content' = NoReflection
    /\ summary_info' = SummaryForInsight(summary_info)
    /\ calls' = [calls EXCEPT !.insight = @ + 1]
    /\ \E resp \in InsightResponses :
         messages' = Append(messages,
                            ClosingMessage(generate_insights(resp),
                                           code_to_execute, final_figs,
                                           enhanced_prompt))
    /\ pc' = "idle"
    /\ UNCHANGED <<awaiting_clarification, clarification_data,
                   original_prompt>>
    /\ UNCHANGED <<envVars, inputVars, s3Vars, final_figs, new_code>>
    /\ UNCHANGED <<execs, attempts, warnings, firstResult, entryMessages>>

\* ------------------------------------------------------------------------
\* Specification
\* ------------------------------------------------------------------------
Next ==
    \/ Submit
    \/ Step0
    \/ Step1
    \/ Step2
    \/ S3Exec
    \/ S3Fix
    \/ S3Return
    \/ S4Audit
    \/ S4Exec
    \/ Step6

Spec == Init /\ [][Next]_vars

\* the clear button of the sidebar, pressed between two turns:
\* st.session_state.messages = [] and a rerun; no other key of the session
\* state is assigned
Clear ==
    /\ pc = "idle"
    /\ messages' = <<>>
    /\ UNCHANGED <<awaiting_clarification, clarification_data,
                   original_prompt>>
    /\ UNCHANGED <<envVars, pc, inputVars, s3Vars, s4Vars, obsVars, auxVars>>

\* the turns of a session together with the clear button
NextClear ==
    \/ Submit
    \/ Step0
    \/ Step1
    \/ Step2
    \/ S3Exec
    \/ S3Fix
    \/ S3Return
    \/ S4Audit
    \/ S4Exec
    \/ Step6
    \/ Clear

SpecClear == Init /\ [][NextClear]_vars

\* the steps the interpreter takes on its own once a question has been
\* submitted: the script runs on until process_user_query returns, each
\* call and each exec being taken to return or to raise
Pipeline ==
    \/ Step0
    \/ Step1
    \/ Step2
    \/ S3Exec
    \/ S3Fix
    \/ S3Return
    \/ S4Audit
    \/ S4Exec
    \/ Step6

\* submitting a question is up to the user, so no fairness on Submit
SpecLive == Init /\ [][Next]_vars /\ WF_vars(Pipeline)

\* generate_code is about to run on a Session of completed exchanges and
\* the current question; the other variables are as process_user_query
\* has them at that point of a turn without clarification
InitHistory ==
    /\ \E n \in 0..MaxExchanges, hist \in BOOLEAN :
         \E ex \in SessionShapes(n) :
            /\ messages = SessionOf(ex, hist)
            /\ use_history = hist
            /\ entryMessages = SessionOf(ex, hist)
            /\ turn = Len(ex) + 1
    /\ awaiting_clarification = FALSE
    /\ clarification_data = NoPayload
    /\ original_prompt = <<>>
    /\ dfHeap = (CanonId :> LoadedDf)
    /\ fignums = <<>>
    /\ pc = "step2"
    /\ prompt = <<"q">>
    /\ enable_clarification = FALSE
    /\ enhanced_prompt = <<"enh">>
    /\ code_to_execute = None
    /\ conversation = <<>>
    /\ retry_count = 0
    /\ success = FALSE
    /\ last_error = None
    /\ exec_globals = EmptyGlobals
    /\ execution_output = ""
    /\ summary_info = EmptyGlobals
    /\ final_figs = <<>>
    /\ new_code = None
    /\ calls = [NoCalls EXCEPT !.enhance = 1]
    /\ execs = NoExecs
    /\ attempts = <<>>
    /\ warnings = 0
    /\ firstResult = NoResult
    /\ clarification_content = NoResponse
    /\ ai_correction = NoCorrection
    /\ reflection_content = NoReflection
    /\ enh = NoEnhance

\* generate_code alone, over the Sessions above
NextHistory ==
    \/ Step2

SpecHistory == InitHistory /\ [][NextHistory]_vars

\* enhance_prompt is about to be applied to a question and an outcome of
\* its call
InitEnhance ==
    /\ InitHandler
    /\ \E q \in EnhanceQuestions, r \in EnhanceResponses :
         enh = [phase |-> "input", question |-> q, response |-> r,
                result |-> NoEnhResult]

\* enhance_prompt alone, over all questions and outcomes of its call
NextEnhance ==
    \/ EnhanceCall

SpecEnhance == InitEnhance /\ [][NextEnhance]_vars

\* generate_code has received a topic list, the court flag and the court
\* text and is about to build its system prompt
InitSchema ==
    /\ InitHandler
    /\ \E t \in TopicLists(MaxTopics), n \in BOOLEAN, c \in CourtInfos :
         enh = [phase |-> "topics", relevant_topics |-> t,
                needs_court_info |-> n, court_place_info |-> c,
                system_prompt |-> NoSystemPrompt]

NextSchema ==
    \/ BuildSystemPrompt

SpecSchema == InitSchema /\ [][NextSchema]_vars

\* ------------------------------------------------------------------------
\* Properties
\* ------------------------------------------------------------------------
LastOf(seq) == seq[Len(seq)]

IsAnswer(m) == m.role = "assistant" /\ Contains(m.content, "---")
IsFailureNotice(m) ==
    /\ m.role = "assistant"
    /\ ~Contains(m.content, "---")
    /\ ~Contains(m.content, "THINK")

\* the corrective run of this turn has raised
CorrectiveRunFailed ==
    /\ execs.s4 >= 1
    /\ attempts # <<>>
    /\ LastOf(attempts).stage = "s4"
    /\ ~LastOf(attempts).ok

\* C1: in one turn the repair loop asks the generator for a corrected
\* program at most 3 times, also when every execution attempt raises.
C1_AtMostThreeRepairRequests == calls.repair <= 3

\* C2: execute_and_fix runs the candidate at most 4 times per turn; after
\* the 4th failed execution nothing is executed any more and the function
\* returns success = False.
C2_AtMostFourExecutions ==
    /\ execs.s3 <= 4
    /\ retry_count = 4 =>
         /\ ~success
         /\ execs.s3 = 4
         /\ execs.s4 = 0
         /\ pc \in {"s3_fix", "s3_ret", "idle"}

C2_Witness == pc = "s3_ret" /\ ~success /\ execs.s3 = 4

\* C3: every execution attempt of a turn (first run, repair retries, the
\* corrective run) starts in a newly built context: its dataset binding is
\* an object made for that attempt holding the loaded content, and the
\* namespace holds the injected names only.
C3_FreshContextPerAttempt ==
    \A i \in 1..Len(attempts) :
        /\ attempts[i].dfId # CanonId
        /\ attempts[i].dfSeen = LoadedDf
        /\ attempts[i].names = InjectedNames
        /\ \A j \in 1..Len(attempts) :
              i # j => attempts[i].dfId # attempts[j].dfId

\* a failed attempt that wrote to its dataset and left bindings behind is
\* followed by a retry and by a corrective run
C3_Witness ==
    /\ Len(attempts) >= 3
    /\ attempts[1].code = "pX"
    /\ attempts[1].stage = "s3"
    /\ LastOf(attempts).stage = "s4"

\* C4: the dataset object held by the session keeps the loaded content in
\* every state, whatever the generated programs did to their binding.
C4_CanonicalDatasetUnchanged == dfHeap[CanonId] = LoadedDf

\* the second turn starts after a turn whose program wrote to its dataset
C4_Witness ==
    /\ turn = 2
    /\ pc = "step0"
    /\ Len(messages) = 3
    /\ Contains(messages[2].content, "pA")

\* C5: per turn the Reflector makes exactly one audit call and at most one
\* corrective run; after the corrective run the stage is left for good.
C5_OneAuditOneCorrection ==
    /\ calls.audit <= 1
    /\ execs.s4 <= 1
    /\ pc \in {"s4_exec", "step5"} /\ success => calls.audit = 1
    /\ execs.s4 = 1 => pc \in {"step5", "idle"}

C5_Witness == pc = "step5" /\ execs.s4 = 1 /\ calls.audit = 1
              /\ LastOf(attempts).ok

\* C6: when the corrective run raises, check_logic_and_fix returns the
\* program, the captured output, the Summary Info and the chart list of
\* the earlier successful execution, and one warning has been shown.
C6_FallbackKeepsFirstResult ==
    (pc = "step5" /\ CorrectiveRunFailed) =>
        /\ code_to_execute = firstResult.code
        /\ code_to_execute = attempts[Len(attempts) - 1].code
        /\ attempts[Len(attempts) - 1].ok
        /\ execution_output = firstResult.out
        /\ summary_info = firstResult.summary
        /\ final_figs = firstResult.figs
        /\ warnings = 1

C6_Witness ==
    /\ pc = "step5"
    /\ CorrectiveRunFailed
    /\ code_to_execute = "pA"
    /\ final_figs # <<>>

\* C7: once the corrected program has raised, the turn sends no generator
\* or repair request and executes nothing more.
C7_NoNestedRepair ==
    [][(CorrectiveRunFailed /\ turn' = turn) =>
        /\ execs' = execs
        /\ attempts' = attempts
        /\ calls'.repair = calls.repair
        /\ calls'.gen = calls.gen
        /\ calls'.audit = calls.audit]_vars

C7_Witness == pc = "idle" /\ CorrectiveRunFailed /\ IsAnswer(LastOf(messages))

\* C8: when the repair loop returns without a success, no audit and no
\* insight call has been made, nothing has been appended yet, and the turn
\* ends by appending one failure notice holding the last execution error.
C8_ExhaustionEndsInFailureNotice ==
    [][(pc = "s3_ret" /\ ~success) =>
        /\ retry_count = 4
        /\ messages = entryMessages
        /\ last_error = ErrorOf(LastOf(attempts).code)
        /\ calls.audit = 0
        /\ calls.insight = 0
        /\ execs.s4 = 0
        /\ messages' = Append(messages,
                              Msg("assistant", <<last_error>>, <<>>, TRUE,
                                  <<>>))
        /\ pc' = "idle"
        /\ calls' = calls
        /\ execs' = execs]_vars

C8_Witness ==
    /\ pc = "idle"
    /\ ~success
    /\ Len(attempts) = 4
    /\ attempts[1].code = "pY"
    /\ attempts[4].code = "pX"
    /\ IsFailureNotice(LastOf(messages))
    /\ LastOf(messages).content = <<"errX">>
    /\ calls.audit = 0
    /\ calls.insight = 0

\* C9: once an execution has succeeded in a turn, the turn ends with a
\* final answer message, never with a failure notice.
C9_SuccessNeverEndsInFailure ==
    (pc = "idle" /\ success) => IsAnswer(LastOf(messages))

\* C10: check_clarification returns None without a call to the reasoning
\* service when clarification is disabled or the question carries the
\* supplement marker.
C10_GateSkipsWithoutCall ==
    [][(pc = "step0" /\ (~enable_clarification \/ Contains(prompt, SUP))) =>
        /\ calls'.gate = calls.gate
        /\ pc' = "step1"
        /\ UNCHANGED sessVars]_vars

\* a resumed question passes the gate with clarification enabled
C10_Witness ==
    /\ pc = "step1"
    /\ calls.gate = 0
    /\ enable_clarification
    /\ Contains(prompt, SUP)

\* the response text carries no clarification payload: it contains CLEAR,
\* is not structured data, sits in a fence that was never closed, is
\* structured data other than an object, or is an object that does not ask
\* for a clarification
NoPayloadIn(resp) ==
    \/ resp.clear
    \/ resp.fence = "json_unclosed"
    \/ resp.body \in {"invalid", "nondict", "noneed"}

\* C11: when no clarification payload can be parsed from the response of
\* the judgment call, check_clarification returns None: the handler is at
\* the Prompt Enhancer with the Session as it was at the start of the turn.
C11_UnparseableResponseIsClear ==
    (clarification_content # NoResponse /\ NoPayloadIn(clarification_content))
        => /\ pc = "step1"
           /\ ~awaiting_clarification
           /\ messages = entryMessages

\* C12: a follow-up submitted while the session awaits a clarification
\* clears the flag and the payload and is merged with the original question
\* under the supplement marker (an option number stands for that option);
\* a question carrying the marker never meets the gate's judgment call and
\* never pauses the session.
C12_FollowUpResumesPastGate ==
    /\ [][(pc = "idle" /\ awaiting_clarification /\ pc' = "step0") =>
            LET input == LastOf(messages').content
                answer == IF input = <<"1">>
                          THEN <<clarification_data.options[1]>>
                          ELSE input
            IN /\ ~awaiting_clarification'
               /\ clarification_data' = NoPayload
               /\ prompt' = original_prompt \o <<SUP>> \o answer]_vars
    /\ [](Contains(prompt, SUP) =>
            /\ ~awaiting_clarification
            /\ clarification_data = NoPayload
            /\ calls.gate = 0)

\* the resumed turn of a paused question ran to its answer with
\* clarification enabled
C12_Witness ==
    /\ pc = "idle"
    /\ turn = 2
    /\ enable_clarification
    /\ prompt = <<"q", SUP, "optA">>
    /\ calls.gate = 0
    /\ calls.insight = 1
    /\ IsAnswer(LastOf(messages))
    /\ Contains(messages[2].content, "THINK")

\* C13: a payload returned by the Clarification Gate halts the turn: the
\* session awaits the clarification with the payload and the question
\* stored, one disambiguation message was appended, and no later stage
\* was called or run in that turn.
C13_PayloadHaltsTurn ==
    awaiting_clarification =>
        /\ pc = "idle"
        /\ clarification_data # NoPayload
        /\ original_prompt = prompt
        /\ messages = Append(entryMessages,
                             ClarificationMsg(clarification_data))
        /\ calls.enhance = 0
        /\ calls.gen = 0
        /\ calls.repair = 0
        /\ execs = NoExecs
        /\ calls.audit = 0
        /\ calls.insight = 0

\* C14: the session holds one payload field, and it is filled exactly when
\* the session awaits a clarification: flag and payload are written
\* together and cleared together.
C14_PayloadIffAwaiting ==
    awaiting_clarification <=> (clarification_data # NoPayload)

\* a paused session was resumed: flag and payload are both cleared
C14_Witness ==
    /\ pc = "step0"
    /\ turn = 2
    /\ Len(messages) = 3
    /\ Contains(messages[2].content, "THINK")
    /\ ~awaiting_clarification
    /\ clarification_data = NoPayload

\* C15: a stage of process_user_query writes Session state only as the
\* last thing of the turn: the halt at the Clarification Gate (flag, payload,
\* question and the disambiguation message together), or one final message
\* (answer or failure notice) with the clarification fields untouched.
C15_SessionWrittenOnlyAtTurnEnd ==
    [][(pc # "idle" /\ sessVars' # sessVars) =>
        /\ pc' = "idle"
        /\ \/ /\ awaiting_clarification'
              /\ clarification_data' # NoPayload
              /\ original_prompt' = prompt
              /\ messages' = Append(messages,
                                    ClarificationMsg(clarification_data'))
           \/ /\ UNCHANGED <<awaiting_clarification, clarification_data,
                             original_prompt>>
              /\ Len(messages') = Len(messages) + 1
              /\ SubSeq(messages', 1, Len(messages)) = messages
              /\ \/ IsAnswer(LastOf(messages'))
                 \/ IsFailureNotice(LastOf(messages'))]_vars

\* ------------------------------------------------------------------------
\* Properties of enhance_prompt
\* ------------------------------------------------------------------------
\* the response is text from which no object was parsed
ParseFailed(resp) == resp.kind = "text" /\ EnhanceJson(resp) # "dict"

Elems(seq) == {seq[i] : i \in 1..Len(seq)}

\* C16: for every outcome of its call, enhance_prompt returns and does not
\* raise.
C16_EnhanceNeverRaises ==
    enh.phase = "done" => ~enh.result.raised

\* the tags the keyword detection gives for a question: the topics whose
\* keyword occurs, and both topics when none occurs
KeywordTags(q) ==
    IF "kwSpatial" \in Elems(q) /\ "kwScore" \in Elems(q)
    THEN <<"spatial", "score">>
    ELSE IF "kwSpatial" \in Elems(q) THEN <<"spatial">>
    ELSE IF "kwScore" \in Elems(q) THEN <<"score">>
    ELSE <<"spatial", "score">>

\* C17 as stated: when the response cannot be parsed, the enhanced question
\* is the user's question and the tags come from the keywords of the
\* question.
C17_FallbackEchoesQuestion ==
    (enh.phase = "done" /\ ParseFailed(enh.response)) =>
        /\ ~enh.result.raised
        /\ enh.result.enhanced = enh.question
        /\ enh.result.topics = KeywordTags(enh.question)

\* C17 amended: when the response text cannot be parsed, the enhanced
\* question is the raw text of the response and the tags come from the
\* keywords of the question.
C17_FallbackKeepsRawResponse ==
    (enh.phase = "done" /\ ParseFailed(enh.response)) =>
        /\ ~enh.result.raised
        /\ enh.result.enhanced = RawContent(enh.question, enh.response)
        /\ enh.result.topics = KeywordTags(enh.question)

\* prose came back for a question about scores
C17_Witness ==
    /\ enh.phase = "done"
    /\ enh.question = <<"kwScore", "w">>
    /\ enh.response = [kind |-> "text", fence |-> "none", body |-> "invalid"]
    /\ enh.result.enhanced = <<"invalid">>
    /\ enh.result.topics = <<"score">>

\* C18: the tags enhance_prompt returns are among spatial and score.
C18_TopicsWithinVocabulary ==
    (enh.phase = "done" /\ ~enh.result.raised) =>
        Elems(enh.result.topics) \subseteq {"spatial", "score"}

\* C19: when the parsed object has no tag field, and when the response
\* text cannot be parsed and the question has no keyword of either topic,
\* enhance_prompt returns both tags; after a failed parse the tag list is
\* never empty.
C19_UndeterminedTopicsDefaultToAll ==
    (enh.phase = "done" /\ enh.response.kind = "text") =>
        /\ ~enh.result.raised
        /\ (EnhanceJson(enh.response) = "dict"
            /\ enh.response.body = "no_topics")
              => enh.result.topics = <<"spatial", "score">>
        /\ (ParseFailed(enh.response)
            /\ Elems(enh.question) \cap {"kwSpatial", "kwScore"} = {})
              => enh.result.topics = <<"spatial", "score">>
        /\ ParseFailed(enh.response) => enh.result.topics # <<>>

\* a complete object in a fence that was never closed, for a question
\* without keywords
C19_Witness ==
    /\ enh.phase = "done"
    /\ enh.question = <<"w", "w">>
    /\ enh.response = [kind |-> "text", fence |-> "json_unclosed",
                       body |-> "full"]
    /\ ~enh.result.raised
    /\ enh.result.topics = <<"spatial", "score">>
    /\ ~enh.result.needs

\* C20: when generate_code finds no fenced program, the turn goes from
\* code generation straight to the insight: nothing is executed, no
\* correction is requested, no audit is made, the summary handed to the
\* insight is the hint that no analysable output exists, and the answer
\* stored has no program block.
C20_NoProgramShortCircuits ==
    /\ [][(pc = "step2" /\ pc' # "idle" /\ code_to_execute' = None) =>
            pc' = "step5"]_vars
    /\ [][(pc = "step5" /\ code_to_execute = None) =>
            /\ execs = NoExecs
            /\ attempts = <<>>
            /\ calls.repair = 0
            /\ calls.audit = 0
            /\ calls'.insight = 1
            /\ summary_info' = NoOutputHint
            /\ pc' = "idle"
            /\ messages' = Append(messages, LastOf(messages'))
            /\ IsAnswer(LastOf(messages'))
            /\ ~Contains(LastOf(messages').content, "FENCE_PY")
            /\ LastOf(messages').figures = <<>>]_vars

\* a turn whose generator response had no fence ended with its answer
C20_Witness ==
    /\ pc = "idle"
    /\ code_to_execute = None
    /\ calls.gen = 1
    /\ calls.insight = 1
    /\ calls.repair = 0
    /\ calls.audit = 0
    /\ execs = NoExecs
    /\ summary_info = NoOutputHint
    /\ IsAnswer(LastOf(messages))
    /\ ~Contains(LastOf(messages).content, "FENCE_PY")

\* C21: in the Summary Info of check_logic_and_fix a tabular binding with
\* zero rows is always the empty marker: the first inspection marks every
\* empty frame of the namespace, and no summary carries a row count of
\* zero.
C21_EmptyFramesCarryMarker ==
    /\ (calls.audit = 1 /\ execs.s4 = 0 /\ pc \in {"s4_exec", "step5"}) =>
          \A n \in (DOMAIN exec_globals) \ ignore_list :
              (exec_globals[n].t = "frame" /\ exec_globals[n].v = 0) =>
                  summary_info[n].t = "empty_marker"
    /\ \A n \in DOMAIN summary_info :
          ~(summary_info[n].t = "rowcount" /\ summary_info[n].v = 0)

\* C22: whatever the insight call does, the turn that reached the insight
\* stage ends with its answer stored: the program block when there is a
\* program, the charts, and the narrative or the placeholder.
C22_InsightFailureKeepsAnswer ==
    [][pc = "step5" =>
        /\ pc' = "idle"
        /\ messages' = Append(messages, LastOf(messages'))
        /\ IsAnswer(LastOf(messages'))
        /\ LastOf(messages').figures = final_figs
        /\ Truthy(code_to_execute) =>
              SubSeq(LastOf(messages').content, 1, 3)
                  = CodeBlock(code_to_execute)
        /\ \/ Contains(LastOf(messages').content, "insight")
           \/ Contains(LastOf(messages').content, "insight_unavailable")]_vars

\* the insight call failed after a program had run and drawn a chart
C22_Witness ==
    /\ pc = "idle"
    /\ calls.insight = 1
    /\ success
    /\ Contains(LastOf(messages).content, "insight_unavailable")
    /\ Contains(LastOf(messages).content, "FENCE_PY")
    /\ LastOf(messages).figures # <<>>

\* ------------------------------------------------------------------------
\* Properties of the history window
\* ------------------------------------------------------------------------
\* what stands between the system instruction and the current question
Window(conv) == SubSeq(conv, 2, Len(conv) - 1)

\* message i of the Session may be shown to the generator: it is older
\* than the current message, nothing from it up to the current message is
\* untracked, it has text and is no clarification message
EligibleAt(msgs, i) ==
    /\ i < Len(msgs)
    /\ \A j \in i..(Len(msgs) - 1) : msgs[j].tracked
    /\ msgs[i].content # <<>>
    /\ ~Contains(msgs[i].content, "THINK")

\* the 8 most recent eligible messages
RecentEligible(msgs) ==
    LET E == {i \in 1..Len(msgs) : EligibleAt(msgs, i)}
    IN {i \in E : Cardinality({j \in E : j >= i}) <= 8}

\* C23: the history window of generate_code has at most 8 messages; with
\* history on it is the most recent eligible messages of the Session in
\* their order, with history off it is empty; the current turn's user
\* message is not in it.
C23_WindowIsRecentEligible ==
    [][pc = "step2" =>
        LET W == Window(conversation')
            R == RecentEligible(messages)
        IN /\ Len(conversation') >= 2
           /\ conversation'[1].role = "system"
           /\ conversation'[Len(conversation')]
                 = Turn("user", enhanced_prompt)
           /\ Len(W) <= 8
           /\ Len(W) = IF use_history THEN Cardinality(R) ELSE 0
           /\ \A k \in 1..Len(W) :
                 \E i \in R :
                    /\ Cardinality({j \in R : j <= i}) = k
                    /\ W[k] = Turn(messages[i].role, messages[i].content)
           /\ \A k \in 1..Len(W) :
                 W[k].content # LastOf(messages).content]_vars

\* ten eligible messages precede the current one: the window holds the
\* third to the tenth
C23_Witness ==
    /\ pc = "s3_loop"
    /\ use_history
    /\ Len(messages) = 11
    /\ \A i \in 1..10 : EligibleAt(messages, i)
    /\ Len(Window(conversation)) = 8
    /\ Window(conversation)[1] = Turn("user", Words(3))
    /\ Window(conversation)[8] = Turn("assistant", Words(10))

\* C24: an untracked message of the Session, and every message older than
\* it, is absent from the history window.
C24_WindowStopsAtUntracked ==
    [][pc = "step2" =>
        \A i \in 1..(Len(messages) - 1) :
            ~messages[i].tracked =>
                \A j \in 1..i, k \in 1..Len(Window(conversation')) :
                    Window(conversation')[k].content
                        # messages[j].content]_vars

\* history was off for the third question: the window starts with the
\* reply to it
C24_Witness ==
    /\ pc = "s3_loop"
    /\ use_history
    /\ Len(messages) = 9
    /\ ~messages[5].tracked
    /\ \A i \in 1..4 : messages[i].tracked /\ messages[i].content # <<>>
    /\ Len(Window(conversation)) = 3
    /\ Window(conversation)[1] = Turn("assistant", Words(6))

\* C25: no message of the conversation sent to the generator is a
\* clarification message.
C25_NoClarificationInWindow ==
    \A k \in 1..Len(conversation) :
        ~Contains(conversation[k].content, "THINK")

\* the Session holds a clarification message between a question and its
\* follow-up, and both of these are in the window
C25_Witness ==
    /\ pc = "s3_loop"
    /\ use_history
    /\ Len(messages) = 7
    /\ Contains(messages[4].content, "THINK")
    /\ Len(Window(conversation)) = 5
    /\ Window(conversation)[3] = Turn("user", Words(3))
    /\ Window(conversation)[4] = Turn("user", Words(5))

\* the corrective pass of this turn ran to its end without a warning
CorrectivePassCompleted == execs.s4 = 1 /\ warnings = 0

C27_RegistryDrained ==
    pc \in {"step5", "idle"} => fignums = <<>>

\* C28: when execute_and_fix returns success, the last attempt is the only
\* one that ran cleanly, and the program, the captured output and the
\* namespace returned are those of that attempt: nothing printed or bound
\* by a failed attempt is in them.
C28_SuccessReturnsTheCleanRun ==
    (pc = "s3_ret" /\ success) =>
        LET n == Len(attempts)
        IN /\ n = retry_count + 1
           /\ n <= max_retries + 1
           /\ attempts[n].ok
           /\ \A i \in 1..(n - 1) : ~attempts[i].ok
           /\ code_to_execute = attempts[n].code
           /\ execution_output = Stdout(attempts[n].code)
           /\ exec_globals =
                 ExecGlobals(attempts[n].code,
                             FreshGlobals(attempts[n].dfId),
                             NewFigs(attempts[n].code, turn, "s3"))
           /\ "tmp" \notin DOMAIN exec_globals

\* three failed attempts that printed and bound a name, then a clean run
C28_Witness ==
    /\ pc = "s3_ret"
    /\ success
    /\ retry_count = 3
    /\ \A i \in 1..3 : attempts[i].code = "pX"
    /\ code_to_execute = "pA"
    /\ execution_output = "outA"

\* the conversation generate_code built for this turn
BaseConversation ==
    <<Turn("system", <<"sys">>)>>
    \o HistoryWindow(entryMessages, use_history)
    \o <<Turn("user", enhanced_prompt)>>

\* C29: after k failed attempts the conversation is the one generate_code
\* built followed by k exchanges, each the failing program and then its
\* error description; the exchange is in place when the correction is
\* requested; no program-only or error message enters the Session.
C29_OneExchangePerFailure ==
    /\ [](calls.gen = 1 =>
            LET b == Len(BaseConversation)
            IN /\ Len(conversation) = b + 2 * retry_count
               /\ SubSeq(conversation, 1, b) = BaseConversation
               /\ \A k \in 1..retry_count :
                     /\ ~attempts[k].ok
                     /\ conversation[b + 2 * k - 1]
                           = Turn("assistant", CodeBlock(attempts[k].code))
                     /\ conversation[b + 2 * k]
                           = Turn("user",
                                  <<"error", ErrorOf(attempts[k].code)>>))
    /\ [][(pc = "s3_fix") =>
            (/\ calls.repair = retry_count - 1
             /\ calls'.repair = retry_count
             /\ conversation' = conversation)]_vars
    /\ [](\A i \in 1..Len(messages) :
              /\ ~(Len(messages[i].content) = 3
                   /\ messages[i].content[1] = "FENCE_PY")
              /\ ~(messages[i].content # <<>>
                   /\ messages[i].content[1] = "error"))

\* a run that succeeded after two failures of different programs
C29_Witness ==
    /\ pc = "s3_ret"
    /\ success
    /\ retry_count = 2
    /\ ~use_history
    /\ Len(conversation) = 6
    /\ conversation[3] = Turn("assistant", CodeBlock("pX"))
    /\ conversation[4] = Turn("user", <<"error", "errX">>)
    /\ conversation[5] = Turn("assistant", CodeBlock("pY"))
    /\ conversation[6] = Turn("user", <<"error", "errY">>)
    /\ Len(messages) = Len(entryMessages)

\* the corrective run of this turn ran cleanly
CorrectiveRunSucceeded ==
    /\ execs.s4 = 1
    /\ LastOf(attempts).stage = "s4"
    /\ LastOf(attempts).ok

\* the namespace the corrective run of new_code ended with
CorrectedGlobals ==
    ExecGlobals(new_code, FreshGlobals(LastOf(attempts).dfId),
                NewFigs(new_code, turn, "s4"))

\* C30 as stated: after a successful corrective run the turn reports the
\* corrected program, the output it printed, the summary of its namespace
\* and the charts it drew, and the stored answer carries that program and
\* those charts; nothing of the earlier run is among them.
C30_CorrectedRunIsReported ==
    /\ []((pc \in {"step5", "idle"} /\ CorrectiveRunSucceeded) =>
            /\ code_to_execute = new_code
            /\ code_to_execute = LastOf(attempts).code
            /\ execution_output = Stdout(new_code)
            /\ final_figs = CollectFigs(NewFigs(new_code, turn, "s4"),
                                        CorrectedGlobals)
            /\ \A k \in 1..Len(final_figs) : final_figs[k].stage = "s4"
            /\ summary_info = Resummarize(CorrectedGlobals, final_figs)
            /\ DOMAIN summary_info \subseteq
                  (DOMAIN CorrectedGlobals) \cup {"_generated_figures_count"})
    /\ [][(pc = "step5" /\ CorrectiveRunSucceeded) =>
            (/\ LastOf(messages').figures = final_figs
             /\ Truthy(new_code) =>
                   SubSeq(LastOf(messages').content, 1, 3)
                       = CodeBlock(new_code)
             /\ ~Truthy(new_code) =>
                   ~Contains(LastOf(messages').content, "FENCE_PY"))]_vars

\* ------------------------------------------------------------------------
\* C31: stage order within a turn
\* ------------------------------------------------------------------------
\* position of a control point in the order Gate, Enhancer, Generator,
\* Executor, Reflector, Insight Synthesizer, Session append
StageRank(p) ==
    CASE p = "step0" -> 1
      [] p = "step1" -> 2
      [] p = "step2" -> 3
      [] p \in {"s3_loop", "s3_fix", "s3_ret"} -> 4
      [] p \in {"s4_audit", "s4_exec"} -> 5
      [] p = "step5" -> 6
      [] p = "idle" -> 7

\* C31: within one turn the stages run in the order Gate, Enhancer,
\* Generator, Executor, Reflector, Insight Synthesizer, Session append and
\* never go back to an earlier stage; the audit is entered and called only
\* after an execution of this turn succeeded; the insight call is made only
\* after the Reflector returned or after generation produced no program.
C31_StagesInOrder ==
    /\ [][(pc # "idle") => StageRank(pc') >= StageRank(pc)]_vars
    /\ [][(pc = "idle" /\ pc' # "idle") => pc' = "step0"]_vars
    /\ [](calls.enhance >= 1 => StageRank(pc) >= 2 /\ calls.enhance = 1)
    /\ [](calls.gen >= 1 => calls.enhance = 1 /\ StageRank(pc) >= 3)
    /\ [](execs.s3 >= 1 => calls.gen = 1 /\ StageRank(pc) >= 4)
    /\ [](calls.repair >= 1 => execs.s3 >= calls.repair)
    /\ [](StageRank(pc) = 5 \/ calls.audit >= 1 \/ execs.s4 >= 1 =>
            /\ success
            /\ execs.s3 >= 1
            /\ \E i \in 1..Len(attempts) :
                   attempts[i].stage = "s3" /\ attempts[i].ok)
    /\ [](pc = "step5" \/ calls.insight >= 1 =>
            \/ calls.audit = 1 /\ success
            \/ /\ calls.gen = 1
               /\ ~Truthy(code_to_execute)
               /\ execs = NoExecs
               /\ calls.audit = 0)
    /\ [](pc = "idle" /\ turn > 0 /\ IsAnswer(LastOf(messages)) =>
            calls.insight = 1)

\* a turn that went through every stage, the corrective run included
C31_Witness ==
    /\ pc = "idle"
    /\ calls = [gate |-> 1, enhance |-> 1, gen |-> 1, repair |-> 1,
                audit |-> 1, insight |-> 1]
    /\ execs = [s3 |-> 2, s4 |-> 1]
    /\ IsAnswer(LastOf(messages))

\* ------------------------------------------------------------------------
\* C32: termination of a turn
\* ------------------------------------------------------------------------
\* the three ways a turn can end, read off the message it appended
HaltedForClarification ==
    /\ awaiting_clarification
    /\ LastOf(messages) = ClarificationMsg(clarification_data)
CompletedWithAnswer == IsAnswer(LastOf(messages))
FailedWithNotice == IsFailureNotice(LastOf(messages))

ExactlyOneOutcome ==
    /\ HaltedForClarification \/ CompletedWithAnswer \/ FailedWithNotice
    /\ ~(HaltedForClarification /\ CompletedWithAnswer)
    /\ ~(HaltedForClarification /\ FailedWithNotice)
    /\ ~(CompletedWithAnswer /\ FailedWithNotice)

\* C32: a turn in progress always comes to its end, where exactly one of
\* the three outcomes (halted for clarification, completed with a final
\* answer, failed with a failure notice) has been appended after the user
\* message; the attempt counters bound the turn: at most max_retries + 1
\* executions and as many repair requests in the loop, one audit, one
\* corrective run, one insight call.
C32_TurnTerminates ==
    /\ (pc # "idle") ~> (/\ pc = "idle"
                          /\ Len(messages) = Len(entryMessages) + 1
                          /\ ExactlyOneOutcome)
    /\ [](/\ retry_count <= max_retries + 1
          /\ execs.s3 <= max_retries + 1
          /\ calls.repair <= max_retries + 1
          /\ execs.s4 <= 1
          /\ calls.audit <= 1
          /\ calls.insight <= 1)

\* a resumed turn that ended with an answer after the last admitted attempt
C32_Witness ==
    /\ pc = "idle"
    /\ turn = 2
    /\ messages[2] = ClarificationMsg(ThePayload)
    /\ execs.s3 = max_retries + 1
    /\ calls.repair = max_retries
    /\ CompletedWithAnswer
    /\ ExactlyOneOutcome

\* ------------------------------------------------------------------------
\* C33: the filtered schema of the Code Generator
\* ------------------------------------------------------------------------
InColumns(d) ==
    \E i \in 1..Len(enh.system_prompt.columns) :
        enh.system_prompt.columns[i] = d

\* C33: the column text in the system prompt of the Code Generator holds
\* every core descriptor whatever the topic list is, a spatial descriptor
\* iff the list has the spatial tag, a score descriptor iff the list has the
\* score tag, and nothing that is not in the corpus.
C33_FilteredSchemaByTags ==
    enh.phase = "built" =>
        /\ \A i \in 1..Len(SchemaCorpus) :
             LET d == SchemaCorpus[i]
             IN /\ DescriptorClass(d) = "core" => InColumns(d)
                /\ DescriptorClass(d) = "spatial" =>
                     (InColumns(d) <=> HasTag(enh.relevant_topics, "spatial"))
                /\ DescriptorClass(d) = "score" =>
                     (InColumns(d) <=> HasTag(enh.relevant_topics, "score"))
        /\ \A j \in 1..Len(enh.system_prompt.columns) :
             \E i \in 1..Len(SchemaCorpus) :
                 SchemaCorpus[i] = enh.system_prompt.columns[j]

\* a list with the score tag and an unknown tag: core and score
\* descriptors only
C33_Witness ==
    /\ enh.phase = "built"
    /\ enh.relevant_topics = <<"tempo", "score">>
    /\ InColumns([name |-> <<"player">>])
    /\ InColumns([name |-> <<"score", "diff">>])
    /\ ~InColumns([name |-> <<"landing", "x">>])
    /\ Len(enh.system_prompt.columns) = 4

\* ------------------------------------------------------------------------
\* C34: a repair response without a fenced program
\* ------------------------------------------------------------------------
HeldWithoutFence(resp) == resp # NoCorrection /\ ~HasPythonFence(resp)

\* C34: when the response to a repair request has no fenced program, the
\* candidate stays as it was; if the loop goes on, its next attempt executes
\* that same program again without a further request in between, and the
\* attempt is counted like any other: one more execution within the cap of
\* max_retries + 1, and one more on the retry counter when it raises.
C34_UnfencedRepairRunsSameProgram ==
    /\ [][(pc = "s3_fix" /\ pc' = "s3_loop"
           /\ HeldWithoutFence(ai_correction')) =>
            /\ code_to_execute' = code_to_execute
            /\ code_to_execute' = LastOf(attempts).code]_vars
    /\ [][(pc = "s3_loop" /\ HeldWithoutFence(ai_correction)) =>
            /\ Len(attempts') = Len(attempts) + 1
            /\ LastOf(attempts').stage = "s3"
            /\ LastOf(attempts').code = LastOf(attempts).code
            /\ calls' = calls
            /\ execs'.s3 = execs.s3 + 1
            /\ execs'.s3 <= max_retries + 1
            /\ ~LastOf(attempts').ok => retry_count' = retry_count + 1
            /\ retry_count' <= max_retries + 1]_vars

\* the second attempt has run the program of the first one again after a
\* response without a fence, and has been counted
C34_Witness ==
    /\ pc = "s3_fix"
    /\ ai_correction = [kind |-> "plain", code |-> None, pass |-> FALSE]
    /\ Len(attempts) = 2
    /\ attempts[1].code = "pX"
    /\ attempts[2].code = "pX"
    /\ retry_count = 2
    /\ calls.repair = 1
    /\ execs.s3 = 2

\* ------------------------------------------------------------------------
\* C35: when the Reflector re-executes
\* ------------------------------------------------------------------------
\* the response holds a program between a python fence and a closing fence
ContainsCorrectedProgram(resp) == resp.kind = "fenced"

\* the response is the PASS sentinel and nothing else
IsPassSentinel(resp) == resp.kind = "plain" /\ resp.pass

\* C35 as stated: after the audit response has arrived the Reflector goes on
\* to the corrective run if and only if the response contains a corrected
\* program; on the PASS sentinel it does not re-execute and returns the
\* program, output, Summary Info and charts of the first result.
C35_ReexecutesIffCorrectedProgram ==
    [][(pc = "s4_audit" /\ pc' # "idle") =>
        /\ pc' = "s4_exec" <=> ContainsCorrectedProgram(reflection_content')
        /\ pc' = "s4_exec" => new_code' = reflection_content'.code
        /\ IsPassSentinel(reflection_content') =>
             /\ pc' = "step5"
             /\ execs' = execs
             /\ code_to_execute' = firstResult'.code
             /\ execution_output' = firstResult'.out
             /\ summary_info' = firstResult'.summary
             /\ final_figs' = firstResult'.figs]_vars

\* ------------------------------------------------------------------------
\* C36: the four values check_logic_and_fix returns
\* ------------------------------------------------------------------------
AllFromFirstRun ==
    /\ code_to_execute = firstResult.code
    /\ execution_output = firstResult.out
    /\ summary_info = firstResult.summary
    /\ final_figs = firstResult.figs

AllFromCorrectedRun ==
    /\ execs.s4 = 1
    /\ LastOf(attempts).stage = "s4"
    /\ code_to_execute = new_code
    /\ execution_output = Stdout(new_code)
    /\ final_figs = CollectFigs(NewFigs(new_code, turn, "s4"),
                                CorrectedGlobals)
    /\ summary_info = Resummarize(CorrectedGlobals, final_figs)

\* C36 as stated: when check_logic_and_fix has returned, the program, the
\* captured output, the Summary Info and the chart list are all those of
\* the first run or all those of the corrected run, and the chart-count
\* entry of the Summary Info is the length of the chart list.
C36_ReturnedValuesFromOneRun ==
    (pc = "step5" /\ calls.audit = 1) =>
        /\ AllFromFirstRun \/ AllFromCorrectedRun
        /\ "_generated_figures_count" \in DOMAIN summary_info
        /\ summary_info["_generated_figures_count"].v = Len(final_figs)

\* ------------------------------------------------------------------------
\* C37: the fallback charts after a failed corrective pass
\* ------------------------------------------------------------------------
\* a figure is open while pyplot's registry holds it
IsOpen(f) == \E i \in 1..Len(fignums) : fignums[i] = f

\* C37 as stated: when the corrective run has raised, the charts that
\* check_logic_and_fix returns, and that the turn then displays and stores,
\* are the charts of the first run and none of them has been closed by the
\* registry reset of the corrective attempt.
C37_FallbackFiguresNotClosed ==
    (pc \in {"step5", "idle"} /\ CorrectiveRunFailed) =>
        /\ final_figs = firstResult.figs
        /\ \A i \in 1..Len(final_figs) : IsOpen(final_figs[i])
        /\ pc = "idle" /\ IsAnswer(LastOf(messages)) =>
             \A i \in 1..Len(LastOf(messages).figures) :
                 IsOpen(LastOf(messages).figures[i])

\* ------------------------------------------------------------------------
\* C38: the awaiting flag at the end of a turn
\* ------------------------------------------------------------------------
\* C38 as stated: when a turn has ended with the session awaiting a
\* clarification, the last message is the assistant's disambiguation
\* message with the question and every option of the stored payload; a turn
\* that ended with a failure notice or a final answer has not left the flag
\* set.
C38_AwaitingOnlyAfterDisambiguation ==
    (pc = "idle" /\ turn > 0) =>
        /\ awaiting_clarification =>
             /\ LastOf(messages) = ClarificationMsg(clarification_data)
             /\ Contains(LastOf(messages).content, clarification_data.question)
             /\ \A i \in 1..Len(clarification_data.options) :
                   Contains(LastOf(messages).content,
                            clarification_data.options[i])
        /\ (IsFailureNotice(LastOf(messages)) \/ IsAnswer(LastOf(messages)))
             => ~awaiting_clarification

\* ------------------------------------------------------------------------
\* C39: clearing the conversation
\* ------------------------------------------------------------------------
\* C39 as stated: pressing the clear button leaves the session as it is
\* initially, with an empty message list, not awaiting a clarification and
\* without a Clarification Payload; the question submitted next enters the
\* pipeline as typed, not merged with a question from before the clear.
C39_ClearResetsSession ==
    /\ [][(pc = "idle" /\ pc' = "idle" /\ messages # <<>>
           /\ messages' = <<>>) =>
            /\ ~awaiting_clarification'
            /\ clarification_data' = NoPayload]_vars
    /\ [][(pc = "idle" /\ messages = <<>> /\ pc' = "step0") =>
            /\ prompt' = messages'[1].content
            /\ ~Contains(prompt', SUP)]_vars

\* ------------------------------------------------------------------------
\* C40: one user message and one assistant message per turn
\* ------------------------------------------------------------------------
\* messages[i] is the user's for odd i and the assistant's for even i
RolesAlternate(msgs) ==
    \A i \in 1..Len(msgs) :
        msgs[i].role = (IF i % 2 = 1 THEN "user" ELSE "assistant")

\* next extends msgs by exactly one message and leaves the others as they are
AppendsOne(msgs, next, role) ==
    /\ Len(next) = Len(msgs) + 1
    /\ SubSeq(next, 1, Len(msgs)) = msgs
    /\ next[Len(next)].role = role

\* C40: a turn appends exactly one user message when it is entered and
\* exactly one assistant message (the disambiguation message, the final
\* answer or the failure notice) when it ends, the steps in between leave
\* the message list alone and no step changes or removes a stored message;
\* hence the list alternates user, assistant, starting with user, and holds
\* a whole number of pairs between two turns.
C40_OneUserOneAssistantPerTurn ==
    /\ [][/\ (pc = "idle" /\ pc' # "idle") =>
               AppendsOne(messages, messages', "user")
          /\ (pc # "idle" /\ pc' # "idle") => messages' = messages
          /\ (pc # "idle" /\ pc' = "idle") =>
               /\ AppendsOne(messages, messages', "assistant")
               /\ \/ LastOf(messages') = ClarificationMsg(clarification_data')
                  \/ IsAnswer(LastOf(messages'))
                  \/ IsFailureNotice(LastOf(messages'))]_vars
    /\ [](/\ RolesAlternate(messages)
          /\ Len(messages) = (IF pc = "idle" THEN 2 * turn ELSE 2 * turn - 1))

\* two turns are over: the first ended with the disambiguation message, the
\* second, entered with the user's answer, with a failure notice
C40_Witness ==
    /\ pc = "idle"
    /\ Len(messages) = 4
    /\ RolesAlternate(messages)
    /\ Contains(messages[2].content, "THINK")
    /\ messages[3].role = "user"
    /\ IsFailureNotice(messages[4])

====
